---------------------------- MODULE Spec2Model ----------------------------
(***************************************************************************)
(* Model of the image sequence media linker                                *)
(*   src/otio_imagesequence_plugin/operations/imagesequence_linker.py      *)
(*                                                                         *)
(* Strings are sequences of one-character strings, so that the regular     *)
(* expressions, the sort and the string comparisons of the code are        *)
(* computed and not assumed.                                               *)
(*                                                                         *)
(* The module is Python 2 code: class FileCache names 'file_cache' both in *)
(* __slots__ and as a class variable (lines 141-143), which Python 3       *)
(* refuses at import time (ValueError) and Python 2 accepts.  Comparisons  *)
(* between values of different types therefore follow Python 2's total     *)
(* order (None < numbers < strings) and never raise.                       *)
(***************************************************************************)
EXTENDS Integers, Sequences, FiniteSets, TLC

(***************************************************************************)
(* Characters and strings                                                  *)
(***************************************************************************)

\* The characters the model uses, in ASCII order.
CharOrder ==
    << "#", ".", "/", "0", "1", "2", "3", "4", "5", "6", "7", "8", "9", ":",
       "A", "N", "_", "a", "b", "e", "f", "g", "h", "n", "o", "p", "r", "s", "t",
       "x" >>

Ord(c) == CHOOSE i \in 1..Len(CharOrder) : CharOrder[i] = c

Digit == <<"0", "1", "2", "3", "4", "5", "6", "7", "8", "9">>

IsDigit(c) == \E i \in 1..10 : Digit[i] = c

DigitVal(c) == (CHOOSE i \in 1..10 : Digit[i] = c) - 1

\* \w of the re module: letters, digits and the underscore.
IsWord(c) == c \notin {"#", ".", "/", ":"}

\* s[a..b], empty when b < a.
Slice(s, a, b) == [i \in 1..(IF b < a THEN 0 ELSE b - a + 1) |-> s[a + i - 1]]

\* Python's 'sub in s' on strings.
Contains(s, sub) ==
    \E i \in 1..(Len(s) - Len(sub) + 1) : Slice(s, i, i + Len(sub) - 1) = sub

\* Python 2's str comparison: a < b, byte by byte.
StrLess(a, b) ==
    \E i \in 1..Len(b) :
        /\ \A j \in 1..(i - 1) : j <= Len(a) /\ a[j] = b[j]
        /\ \/ i = Len(a) + 1
           \/ i <= Len(a) /\ Ord(a[i]) < Ord(b[i])

StrLeq(a, b) == a = b \/ StrLess(a, b)

\* list.sort() of a directory listing (the names of one directory differ).
RECURSIVE SortNames(_)
SortNames(S) ==
    IF S = {} THEN << >>
    ELSE LET m == CHOOSE x \in S : \A y \in S : StrLeq(x, y)
         IN  <<m>> \o SortNames(S \ {m})

\* int() of a string of ASCII digits.
RECURSIVE StrToInt(_)
StrToInt(s) ==
    IF s = << >> THEN 0
    ELSE 10 * StrToInt(Slice(s, 1, Len(s) - 1)) + DigitVal(s[Len(s)])

\* str() of a natural number.
RECURSIVE IntToStr(_)
IntToStr(n) ==
    IF n < 10 THEN <<Digit[n + 1]>>
    ELSE IntToStr(n \div 10) \o <<Digit[(n % 10) + 1]>>

\* '%0<width>d' % n: left-padded with zeros to at least width characters.
RECURSIVE ZeroPad(_, _)
ZeroPad(s, width) == IF Len(s) >= width THEN s ELSE ZeroPad(<<"0">> \o s, width)

(***************************************************************************)
(* Regular expressions of the linker                                       *)
(***************************************************************************)

\* End of the maximal digit run that starts at i.
RECURSIVE RunEnd(_, _)
RunEnd(s, i) ==
    IF i < Len(s) /\ IsDigit(s[i + 1]) THEN RunEnd(s, i + 1) ELSE i

\* re.findall('[0-9]+', filename): the maximal digit runs, left to right.
RECURSIVE FindNumbers(_, _)
FindNumbers(s, i) ==
    IF i > Len(s) THEN << >>
    ELSE IF IsDigit(s[i])
         THEN <<Slice(s, i, RunEnd(s, i))>> \o FindNumbers(s, RunEnd(s, i) + 1)
         ELSE FindNumbers(s, i + 1)

\* re.sub(pat, repl, s) for a pattern without metacharacters: every
\* non-overlapping occurrence, leftmost first, is replaced.
RECURSIVE ReSub(_, _, _, _)
ReSub(pat, repl, s, i) ==
    IF i > Len(s) THEN << >>
    ELSE IF i + Len(pat) - 1 <= Len(s) /\ Slice(s, i, i + Len(pat) - 1) = pat
         THEN repl \o ReSub(pat, repl, s, i + Len(pat))
         ELSE <<s[i]>> \o ReSub(pat, repl, s, i + 1)

\* The bell character '\a' of line 172.
Bell == <<"BEL">>

\* Lines 171-175: the identifier that collects related images.  The last
\* number found is the pattern; a name without digits uses '\a'.
Identifier(filename) ==
    LET pat(numbers) == IF numbers # << >> THEN numbers[Len(numbers)] ELSE Bell
    IN  ReSub(pat(FindNumbers(filename, 1)), <<"#">>, filename, 1)

\* frame_regex (line 57) tried at position i: '(?<=[._])[0-9]+(?=\.\w+$)'.
\* The set of ends e such that s[i..e] is a match starting at i.
FrameMatchEnds(s, i) ==
    { e \in i..Len(s) :
        /\ i > 1 /\ s[i - 1] \in {".", "_"}
        /\ \A j \in i..e : IsDigit(s[j])
        /\ e + 2 <= Len(s) /\ s[e + 1] = "."
        /\ \A j \in (e + 2)..Len(s) : IsWord(s[j]) }

NoMatch == [start |-> 0, end |-> 0]

\* frame_regex.search(s) from position 'from': the leftmost match, with the
\* greedy (longest) digit run; NoMatch stands for None.
FrameSearchFrom(s, from) ==
    LET least(S)     == CHOOSE x \in S : \A y \in S : x <= y
        greatest(S)  == CHOOSE x \in S : \A y \in S : y <= x
        at(i)        == [start |-> i, end |-> greatest(FrameMatchEnds(s, i))]
        pick(starts) == IF starts = {} THEN NoMatch ELSE at(least(starts))
    IN  pick({ i \in from..Len(s) : FrameMatchEnds(s, i) # {} })

FrameSearch(s) == FrameSearchFrom(s, 1)

\* match.group(): the text of a match.
Group(s, m) == Slice(s, m.start, m.end)

\* frame_regex.split(s): the pieces between the successive matches.
RECURSIVE FrameSplitFrom(_, _)
FrameSplitFrom(s, from) ==
    LET cut(m) == IF m = NoMatch THEN <<Slice(s, from, Len(s))>>
                  ELSE <<Slice(s, from, m.start - 1)>> \o FrameSplitFrom(s, m.end + 1)
    IN  cut(FrameSearchFrom(s, from))

FrameSplit(s) == FrameSplitFrom(s, 1)

(***************************************************************************)
(* Python values                                                           *)
(***************************************************************************)

None   == [t |-> "None"]
Str(s) == [t |-> "str", s |-> s]
Num(n) == [t |-> "num", n |-> n]

\* Truth value of a Python object: None, '' and 0 are false.
Truthy(v) ==
    CASE v.t = "None" -> FALSE
      [] v.t = "str"  -> v.s # << >>
      [] v.t = "num"  -> v.n # 0

\* Python 2 orders objects of different types: None < numbers < strings.
TypeRank(v) == CASE v.t = "None" -> 0 [] v.t = "num" -> 1 [] v.t = "str" -> 2

Py2Less(a, b) ==
    IF TypeRank(a) # TypeRank(b) THEN TypeRank(a) < TypeRank(b)
    ELSE CASE a.t = "None" -> FALSE
           [] a.t = "num"  -> a.n < b.n
           [] a.t = "str"  -> StrLess(a.s, b.s)

\* operator.ge and operator.le (lines 354, 360, 373, 377).
Apply(func, a, b) ==
    CASE func = "ge" -> ~Py2Less(a, b)
      [] func = "le" -> ~Py2Less(b, a)

\* A dict key that may be missing: << >> when missing, <<value>> when set.
Missing == << >>
Set(v)  == <<v>>

\* dict.setdefault(key, v) on such a field.
SetAlways(field, v) == Set(v)

SetDefault(field, v) == IF field = Missing THEN Set(v) ELSE field

\* dict.get(key): None when the key is missing.
Get(field) == IF field = Missing THEN None ELSE field[1]

(***************************************************************************)
(* The file system and the metadata reader (OpenImageIO)                   *)
(***************************************************************************)

Sep == <<"/">>

\* os.path.join(dirname, filename).
Join(dirname, filename) == dirname \o Sep \o filename

File(d, n) == [d |-> d, n |-> n]

\* The directories os.walk(root) visits: root and everything below it.
IsUnder(d, root) ==
    \/ d = root
    \/ Len(d) > Len(root) /\ Slice(d, 1, Len(root) + 1) = root \o Sep

\* os.path.splitext(name)[1][1:]: the text after the last '.', none when the
\* name has no '.' after its first character other than '.'.
ExtOf(name) ==
    LET dots == { i \in 1..Len(name) : name[i] = "." }
    IN  IF dots = {} THEN << >>
        ELSE LET p == CHOOSE x \in dots : \A y \in dots : y <= x
             IN  IF \A j \in 1..p : name[j] = "." THEN << >>
                 ELSE Slice(name, p + 1, Len(name))

\* What a file's header holds: whether reading fails, its timecode and its
\* frame rate.
Header(err, tc, fps) == [err |-> err, tc |-> tc, fps |-> fps]

NoHeader == Header(FALSE, None, None)

\* get_fps (lines 72-98): only exr and dpx files carry a frame rate.
get_fps(name, hdr) ==
    IF ExtOf(name) \in { <<"e", "x", "r">>, <<"d", "p", "x">> } THEN hdr.fps
    ELSE None

\* get_timecode_str (lines 101-132).
get_timecode_str(hdr) == hdr.tc

(***************************************************************************)
(* FileCache.dig_for_files                                                 *)
(***************************************************************************)

NewBucket ==
    [files |-> << >>, tc_in |-> Missing, fps |-> Missing, first_frame |-> Missing]

EmptyDict == << >>

\* Lines 167-180 for one directory: the sorted names are appended to the
\* bucket of their identifier, which is created when missing.
DigDir(data, names) ==
    LET sorted == SortNames(names)
        ids    == { Identifier(n) : n \in names }
    IN  [ id \in (DOMAIN data) \cup ids |->
            IF id \in ids
            THEN LET old == IF id \in DOMAIN data THEN data[id] ELSE NewBucket
                 IN  [old EXCEPT !.files =
                        @ \o SelectSeq(sorted, LAMBDA n : Identifier(n) = id)]
            ELSE data[id] ]

\* Lines 161-180: root is registered, then every directory below root that
\* holds files is grouped into the cache.
dig_for_files(cache, files, root) ==
    LET dirs    == { f.d : f \in { g \in files : IsUnder(g.d, root) } }
        keys    == (DOMAIN cache) \cup {root} \cup dirs
        old(d)  == IF d \in DOMAIN cache THEN cache[d] ELSE EmptyDict
    IN  [ d \in keys |->
            IF d \in dirs THEN DigDir(old(d), { f.n : f \in { g \in files : g.d = d } })
            ELSE old(d) ]

(***************************************************************************)
(* opentimelineio.opentime, at a whole, non-drop frame rate                *)
(***************************************************************************)

TwoDigits(n) == ZeroPad(IntToStr(n), 2)

\* otio.opentime.to_timecode(RationalTime(frames, rate)): 'HH:MM:SS:FF'.
to_timecode(frames, rate) ==
    TwoDigits(frames \div (3600 * rate)) \o <<":">>
        \o TwoDigits((frames \div (60 * rate)) % 60) \o <<":">>
        \o TwoDigits((frames \div rate) % 60) \o <<":">>
        \o TwoDigits(frames % rate)

\* otio.opentime.from_timecode('HH:MM:SS:FF', rate).value.
from_timecode(tc, rate) ==
    ((StrToInt(Slice(tc, 1, 2)) * 60 + StrToInt(Slice(tc, 4, 5))) * 60
        + StrToInt(Slice(tc, 7, 8))) * rate + StrToInt(Slice(tc, 10, 11))

RationalTime(value, rate) == [value |-> value, rate |-> rate]

TimeRange(start_time, duration) == [start_time |-> start_time, duration |-> duration]

\* A clip: its name and its source_range, in frames at the clip's rate.
Clip(name, start, duration, rate) ==
    [name |-> name, start |-> start, duration |-> duration, rate |-> rate]

(***************************************************************************)
(* The search criteria and FileCache.check_criteria                        *)
(***************************************************************************)

\* '{ext}'.format(ext=v): a missing argument is formatted as 'None'.
Format(v) == IF v.t = "None" THEN <<"N", "o", "n", "e">> ELSE v.s

\* dict.get(key, default) on the argument map.
ArgGet(args, key, default) ==
    IF key \in DOMAIN args THEN Str(args[key]) ELSE default

\* Lines 347-389: the path filter and the two pairs of bound tests.
Criteria(in_clip, pattern, ext) ==
    LET first == in_clip.start
        last  == in_clip.start + in_clip.duration - 1
    IN  [ pattern |-> Format(pattern),
          ext     |-> Format(ext),
          tests   |->
            [ timecode |->
                << [func |-> "ge", value |-> Str(to_timecode(first, in_clip.rate))],
                   [func |-> "le", value |-> Str(to_timecode(last, in_clip.rate))] >>,
              frames |->
                << [func |-> "ge", value |-> Num(first)],
                   [func |-> "le", value |-> Num(last)] >> ] ]

\* criteria['regex'].search(fullpath) for '({pattern}).*(\.{ext})$' with a
\* pattern and an extension free of metacharacters.
RegexSearch(criteria, fullpath) ==
    LET tail == <<".">> \o criteria.ext
        cut  == Len(fullpath) - Len(tail)
    IN  /\ cut >= 0
        /\ Slice(fullpath, cut + 1, Len(fullpath)) = tail
        /\ Contains(Slice(fullpath, 1, cut), criteria.pattern)

\* Lines 234-274: one turn of the loop of check_criteria, for the file at
\* `index` (0: the first file, 1: the last file of the bucket).  The result
\* carries the verdict of the test, the test name in force, the bucket with
\* its memoized fields, the test evaluated and the file whose header was read.
CheckFile(criteria, dirname, filename, index, testname, bucket, headers) ==
    LET \* lines 238 and 242: return False
        stop(rd) ==
            [ok |-> FALSE, testname |-> testname, bucket |-> bucket,
             trace |-> << >>, reads |-> rd]
        \* lines 271-274
        decide(b, tn, value) ==
            [ok |-> Apply(criteria.tests[tn][index + 1].func, value,
                          criteria.tests[tn][index + 1].value),
             testname |-> tn, bucket |-> b,
             trace |-> << [testname |-> tn, value |-> value.t] >>,
             reads |-> <<filename>>]
        \* lines 261-264: the first frame is memoized on the bucket
        stored(b) == decide(b, "frames", b.first_frame[1])
        \* lines 258-269: no timecode, the frame number of the name is used
        frames(b, m) ==
            IF m = NoMatch THEN decide(b, "frames", None)
            ELSE IF index = 0
                 THEN stored([b EXCEPT !.first_frame =
                                SetDefault(@, Num(StrToInt(Group(filename, m))))])
                 ELSE decide(b, "frames", Num(StrToInt(Group(filename, m))))
        \* line 257
        dispatch(b, value) ==
            IF Truthy(value) THEN decide(b, testname, value)
            ELSE frames(b, FrameSearch(filename))
        \* lines 245-252: timecode and frame rate are memoized on the bucket
        first(b) == dispatch(b, b.tc_in[1])
        \* lines 240-254
        read(hdr) ==
            IF hdr.err THEN stop(<<filename>>)
            ELSE IF index = 0
                 THEN first([bucket EXCEPT
                               !.tc_in = SetDefault(@, get_timecode_str(hdr)),
                               !.fps   = SetDefault(@, get_fps(filename, hdr))])
                 ELSE dispatch(bucket, get_timecode_str(hdr))
    IN  IF ~RegexSearch(criteria, Join(dirname, filename)) THEN stop(<< >>)
        ELSE read(headers[File(dirname, filename)])

\* Lines 219-276.  `files` is <<first, last>>.  The result also carries the
\* bucket with its memoized fields, the tests that were evaluated and the
\* files whose header was read.
check_criteria(criteria, dirname, bucket, files, headers) ==
    LET both(r0, r1) ==
            [ok |-> r1.ok, bucket |-> r1.bucket,
             trace |-> r0.trace \o r1.trace, reads |-> r0.reads \o r1.reads]
        last(r0) ==
            IF ~r0.ok
            THEN [ok |-> FALSE, bucket |-> r0.bucket, trace |-> r0.trace,
                  reads |-> r0.reads]
            ELSE both(r0, CheckFile(criteria, dirname, files[2], 1, r0.testname,
                                    r0.bucket, headers))
    IN  last(CheckFile(criteria, dirname, files[1], 0, "timecode", bucket, headers))

(***************************************************************************)
(* FileCache.locate_files                                                  *)
(***************************************************************************)

\* Lines 194-195: whether locate_files digs.
MustDigUnlessFilled(cache, root, force) ==
    root # << >> /\ (root \notin DOMAIN cache \/ cache[root] = EmptyDict \/ force)

MustDigAlways(cache, root, force) == root # << >>

MustDig(cache, root, force) == root # << >> /\ (root \notin DOMAIN cache \/ force)

\* Lines 198-204: the buckets the loops of locate_files evaluate.
Visited(cache, root) ==
    UNION { { <<d, id>> : id \in { i \in DOMAIN cache[d] : cache[d][i].files # << >> } }
            : d \in { x \in DOMAIN cache : root = << >> \/ Contains(x, root) } }

FirstLast(bucket) == << bucket.files[1], bucket.files[Len(bucket.files)] >>

\* Lines 193-207: the cache after the optional dig and after every visited
\* bucket was evaluated, with the verdict on each bucket.
locate_files(cache, files, headers, criteria, root, force) ==
    LET verdicts(c) ==
            [ b \in Visited(c, root) |->
                check_criteria(criteria, b[1], c[b[1]][b[2]],
                               FirstLast(c[b[1]][b[2]]), headers) ]
        done(c, v) ==
            [ cache  |-> [ d \in DOMAIN c |->
                            [ id \in DOMAIN c[d] |->
                                IF <<d, id>> \in DOMAIN v THEN v[<<d, id>>].bucket
                                ELSE c[d][id] ] ],
              evals  |-> [ b \in DOMAIN v |->
                            [ ok |-> v[b].ok, trace |-> v[b].trace,
                              reads |-> v[b].reads ] ],
              walked |-> MustDig(cache, root, force) ]
        loop(c) == done(c, verdicts(c))
    IN  loop(IF MustDig(cache, root, force) THEN dig_for_files(cache, files, root)
             ELSE cache)

\* Lines 210-212: copy.deepcopy of the cached bucket `ref`.  The copy is a
\* new object: `alias` names the cached bucket an object is shared with,
\* and is empty for an object of its own.
SameObject(obj, ref) == [alias |-> <<ref>>] @@ obj

deepcopy(obj, ref) == [alias |-> << >>] @@ obj

\* Lines 208-216: results is a dict keyed by dirname, so of the accepted
\* buckets of one directory it keeps the one the dict iteration yields last.
\* A Python 2 dict iterates in arbitrary order: any accepted bucket may be it.
Results(cache, evals) ==
    LET hits(d) == { deepcopy(cache[b[1]][b[2]], b) :
                        b \in { x \in DOMAIN evals : x[1] = d /\ evals[x].ok } }
        pick(dirs) ==
            { r \in [dirs -> UNION { hits(d) : d \in dirs }] : \A d \in dirs : r[d] \in hits(d) }
    IN  pick({ b[1] : b \in { x \in DOMAIN evals : evals[x].ok } })

(***************************************************************************)
(* create_sequence_reference and the return value of link_media_reference  *)
(***************************************************************************)

Raise(e)  == [exc |-> e]
Return(v) == [exc |-> "", value |-> v]

\* Line 320: the padding is the length of the frame number as written.
PaddingOfValue(frame_num) == Len(IntToStr(StrToInt(frame_num)))

Padding(frame_num) == Len(frame_num)

\* Lines 289-324.
create_sequence_reference(in_clip, dirname, data) ==
    LET \* line 290
        rate(fps) == IF Truthy(fps) THEN fps.n ELSE in_clip.rate
        \* lines 293-303
        start_time(rt) ==
            IF Truthy(data.tc_in[1])
            THEN RationalTime(from_timecode(data.tc_in[1].s, rt), rt)
            ELSE RationalTime(data.first_frame[1].n, rt)
        \* lines 305-322
        seq(frame_num, parts, rt) ==
            IF data.tc_in = Missing THEN Raise("KeyError")
            ELSE IF ~Truthy(data.tc_in[1]) /\ data.first_frame = Missing
                 THEN Raise("KeyError")
            ELSE IF Len(parts) # 2 THEN Raise("ValueError")
            ELSE Return(
                [ target_url_base |-> dirname \o Sep,
                  name_prefix     |-> parts[1],
                  name_suffix     |-> parts[2],
                  start_value     |-> StrToInt(frame_num),
                  rate            |-> rt,
                  image_number_zero_padding |-> Padding(frame_num),
                  available_range |->
                      TimeRange(start_time(rt), RationalTime(Len(data.files), rt)) ])
        \* line 291: .group() of no match raises
        found(m) ==
            IF m = NoMatch THEN Raise("AttributeError")
            ELSE seq(Group(data.files[1], m), FrameSplit(data.files[1]),
                     rate(Get(data.fps)))
    IN  found(FrameSearch(data.files[1]))

\* Lines 403-408: the first hit for OTIO's console tools, else every hit,
\* None when there is none.
SelectAll(cands, use_first) ==
    IF cands # << >> THEN [t |-> "list", list |-> cands] ELSE None

Select(cands, use_first) ==
    IF cands # << >> /\ use_first THEN [t |-> "seq", seq |-> cands[1]]
    ELSE IF cands # << >> THEN [t |-> "list", list |-> cands]
    ELSE None

\* The orders in which a dict may yield the keys S.
Orders(S) ==
    { o \in [1..Cardinality(S) -> S] : \A i, j \in DOMAIN o : o[i] = o[j] => i = j }

(***************************************************************************)
(* State                                                                   *)
(***************************************************************************)

VARIABLES
    fs,          \* the files on disk: records [d: directory, n: name]
    meta,        \* the header of every file on disk
    file_cache,  \* FileCache.file_cache (line 143), shared by all instances
    USE_FIRST,   \* line 54, fixed when the module is imported
    calls,       \* number of calls made so far
    walks,       \* number of os.walk runs (line 163) so far
    call,        \* the last call: operation and arguments
    evals,       \* verdict of check_criteria on every bucket the call visited
    results,     \* what locate_files returned to the call
    candidates,  \* the list built at lines 394-401
    ret,         \* what the call returned or raised
    pc           \* where each thread inside locate_files stands

vars == << fs, meta, file_cache, USE_FIRST, calls, walks, call, evals,
           results, candidates, ret, pc >>

\* Bound on the number of calls of one behaviour.
MaxCalls == 2

\* Bound on the number of threads that call locate_files concurrently.
NumThreads == 2

Threads == 1..NumThreads

\* A thread outside locate_files.  `at` is its position, `dug` whether it
\* ran dig_for_files, `late` whether another thread had returned when it
\* entered.
Idle == [at |-> "idle", dug |-> FALSE, late |-> FALSE]

NoCall == [op |-> "none"]

ThisCall(op, in_clip, args, root, force) ==
    [ op |-> op, clip |-> in_clip, args |-> args, root |-> root, force |-> force,
      indexed |-> root \in DOMAIN file_cache ]

\* Lines 342-344 and 347-389.
RootOf(args) == ArgGet(args, "root", Str(<<".">>)).s

CriteriaOf(in_clip, args) ==
    Criteria(in_clip, ArgGet(args, "pattern", Str(<< >>)), ArgGet(args, "ext", None))

\* Line 397: the clip name, when there is one, must occur in the first file.
NameOk(in_clip, data) ==
    in_clip.name = << >> \/ Contains(data.files[1], in_clip.name)

\* link_media_reference (lines 328-408).
LinkMediaReference(in_clip, args) ==
    /\ calls < MaxCalls
    /\ call' = ThisCall("link", in_clip, args, RootOf(args), FALSE)
    /\ calls' = calls + 1
    /\ \E out \in { locate_files(file_cache, fs, meta, CriteriaOf(in_clip, args),
                                 RootOf(args), FALSE) } :
          /\ walks' = walks + (IF out.walked THEN 1 ELSE 0)
          /\ file_cache' = out.cache
          /\ evals' = out.evals
          /\ \E r \in Results(out.cache, out.evals) :
             \E built \in { [ d \in { x \in DOMAIN r : NameOk(in_clip, r[x]) } |->
                               create_sequence_reference(in_clip, d, r[d]) ] } :
                /\ results' = r
                /\ IF \E d \in DOMAIN built : built[d].exc # ""
                   THEN /\ candidates' = << >>
                        /\ \E d \in { x \in DOMAIN built : built[x].exc # "" } :
                              ret' = Raise(built[d].exc)
                   ELSE \E o \in Orders(DOMAIN built) :
                        /\ candidates' = [i \in DOMAIN o |-> built[o[i]].value]
                        /\ ret' = Return(Select(candidates', USE_FIRST))
    /\ UNCHANGED << fs, meta, USE_FIRST, pc >>

\* FileCache.locate_files (lines 183-216) called on the shared cache.
LocateFiles(in_clip, args, force) ==
    /\ calls < MaxCalls
    /\ call' = ThisCall("locate", in_clip, args, RootOf(args), force)
    /\ calls' = calls + 1
    /\ \E out \in { locate_files(file_cache, fs, meta, CriteriaOf(in_clip, args),
                                 RootOf(args), force) } :
          /\ walks' = walks + (IF out.walked THEN 1 ELSE 0)
          /\ file_cache' = out.cache
          /\ evals' = out.evals
          /\ \E r \in Results(out.cache, out.evals) :
                /\ results' = r
                /\ ret' = Return([t |-> "dict"])
    /\ candidates' = << >>
    /\ UNCHANGED << fs, meta, USE_FIRST, pc >>

\* A file appears on disk between two calls.
CreateFile(f, hdr) ==
    /\ f \notin fs
    /\ fs' = fs \cup {f}
    /\ meta' = [g \in fs \cup {f} |-> IF g = f THEN hdr ELSE meta[g]]
    /\ UNCHANGED << file_cache, USE_FIRST, calls, walks, call, evals, results,
                    candidates, ret, pc >>

\* The header of a file on disk is rewritten between two calls.
WriteHeader(f, hdr) ==
    /\ f \in fs
    /\ meta[f] # hdr
    /\ meta' = [meta EXCEPT ![f] = hdr]
    /\ UNCHANGED << fs, file_cache, USE_FIRST, calls, walks, call, evals, results,
                    candidates, ret, pc >>

\* The caller appends a name to the files of a record that locate_files
\* returned and overwrites its tc_in; a record shared with the cache is the
\* cached bucket itself.
Mutated(data) ==
    [data EXCEPT !.files = @ \o << <<"x">> >>, !.tc_in = Set(Str(<<"x">>))]

MutateResult(d) ==
    /\ d \in DOMAIN results
    /\ results[d].tc_in # Set(Str(<<"x">>))
    /\ results' = [results EXCEPT ![d] = Mutated(@)]
    /\ file_cache' =
          IF results[d].alias = << >> THEN file_cache
          ELSE [file_cache EXCEPT
                  ![results[d].alias[1][1]][results[d].alias[1][2]] = Mutated(@)]
    /\ UNCHANGED << fs, meta, USE_FIRST, calls, walks, call, evals, candidates,
                    ret, pc >>

\* Lines 193-195 in thread t: the test of 'root not in self.file_cache'.
Enter(t, root) ==
    /\ pc[t].at = "idle"
    /\ pc' = [pc EXCEPT ![t] =
                [at   |-> IF MustDig(file_cache, root, FALSE) THEN "dig" ELSE "loop",
                 dug  |-> FALSE,
                 late |-> \E u \in Threads : pc[u].at = "done"]]
    /\ UNCHANGED << fs, meta, file_cache, USE_FIRST, calls, walks, call, evals,
                    results, candidates, ret >>

\* Line 196 in thread t: dig_for_files on the cache as it is by now.
Dig(t, root) ==
    /\ pc[t].at = "dig"
    /\ file_cache' = dig_for_files(file_cache, fs, root)
    /\ walks' = walks + 1
    /\ pc' = [pc EXCEPT ![t].at = "loop", ![t].dug = TRUE]
    /\ UNCHANGED << fs, meta, USE_FIRST, calls, call, evals, results, candidates,
                    ret >>

\* Lines 198-216 in thread t: the buckets are evaluated and the call returns.
Evaluate(t, in_clip, args) ==
    /\ pc[t].at = "loop"
    /\ pc' = [pc EXCEPT ![t].at = "done"]
    /\ call' = ThisCall("locate", in_clip, args, RootOf(args), FALSE)
    /\ calls' = calls + 1
    /\ \E out \in { locate_files(file_cache, fs, meta, CriteriaOf(in_clip, args),
                                 RootOf(args), FALSE) } :
          /\ file_cache' = out.cache
          /\ evals' = out.evals
          /\ \E r \in Results(out.cache, out.evals) : results' = r
    /\ ret' = Return([t |-> "dict"])
    /\ candidates' = << >>
    /\ UNCHANGED << fs, meta, USE_FIRST, walks >>

Start(files, headers, use_first) ==
    /\ fs = files
    /\ meta = headers
    /\ file_cache = EmptyDict
    /\ USE_FIRST = use_first
    /\ calls = 0
    /\ walks = 0
    /\ call = NoCall
    /\ evals = << >>
    /\ results = << >>
    /\ candidates = << >>
    /\ ret = Return(None)
    /\ pc = [t \in Threads |-> Idle]

(***************************************************************************)
(* Inputs                                                                  *)
(***************************************************************************)

R == <<"r">>

Exr == <<"e", "x", "r">>

Plain(files) == [f \in files |-> NoHeader]

\* Bounds on the length of the generated file names.
MaxNameLen == 5
MaxPairLen == 3

NameAlphabet == {"a", "0", "1", ".", "_"}

\* The alphabet of the names that come in pairs.
PairAlphabet == {"a", "0", "1", "."}

\* Every file name of at most n characters over an alphabet ('.' and '..'
\* name directories, not files).
Names(alphabet, n) ==
    UNION { [1..k -> alphabet] : k \in 1..n } \ { <<".">>, <<".", ".">> }

(***************************************************************************)
(* SpecNames: one directory holding one generated name, or two short ones, *)
(* linked once with the extension of one of its files and a range that     *)
(* holds every frame number.                                               *)
(***************************************************************************)

NameListings ==
    { {n} : n \in Names(NameAlphabet, MaxNameLen) }
        \cup { {n1, n2} : n1 \in Names(PairAlphabet, MaxPairLen),
                          n2 \in Names(PairAlphabet, MaxPairLen) }

WideClip == Clip(<< >>, 0, 1000, 24)

InitNames ==
    \E S \in NameListings :
        Start({ File(R, n) : n \in S }, Plain({ File(R, n) : n \in S }), FALSE)

NextNames ==
    /\ calls = 0
    /\ \E f \in fs : LinkMediaReference(WideClip, [root |-> R, ext |-> ExtOf(f.n)])

SpecNames == InitNames /\ [][NextNames]_vars

\* The elements of a sequence.
Range(seq) == { seq[i] : i \in DOMAIN seq }

\* Two files of one directory that the cache holds in the same bucket.
SameBucket(f, g) ==
    /\ f.d = g.d
    /\ f.d \in DOMAIN file_cache
    /\ \E id \in DOMAIN file_cache[f.d] :
          {f.n, g.n} \subseteq Range(file_cache[f.d][id].files)

\* A name with only its last run of digits replaced by the placeholder.
MaskLastRun(name) ==
    LET ds == { i \in 1..Len(name) : IsDigit(name[i]) }
    IN  IF ds = {} THEN name
        ELSE LET e == CHOOSE x \in ds : \A y \in ds : y <= x
                 b == CHOOSE x \in 1..e :
                        /\ \A j \in x..e : IsDigit(name[j])
                        /\ x = 1 \/ ~IsDigit(name[x - 1])
             IN  Slice(name, 1, b - 1) \o <<"#">> \o Slice(name, e + 1, Len(name))

\* C7: once a directory is indexed, two of its files share a bucket exactly
\* when their names are equal after masking the last digit run only, and a
\* name without digits is alone in the bucket keyed by the name itself.
C7_GroupedByLastRun ==
    call.op # "none" =>
        \A f \in fs : \A g \in fs :
            /\ f.d = g.d =>
                 (SameBucket(f, g) <=> MaskLastRun(f.n) = MaskLastRun(g.n))
            /\ FindNumbers(f.n, 1) = << >> =>
                 /\ f.n \in DOMAIN file_cache[f.d]
                 /\ file_cache[f.d][f.n].files = <<f.n>>

\* The directory a descriptor points to.
DirOf(seq) == Slice(seq.target_url_base, 1, Len(seq.target_url_base) - 1)

\* The first file name, rebuilt from a descriptor.
Rebuilt(seq) ==
    seq.name_prefix
        \o ZeroPad(IntToStr(seq.start_value), seq.image_number_zero_padding)
        \o seq.name_suffix

\* C8: prefix, zero-padded start value and suffix of every descriptor built
\* give back the first file name of the bucket it was built from.
C8_RoundTrip ==
    \A i \in DOMAIN candidates :
        Rebuilt(candidates[i]) = results[DirOf(candidates[i])].files[1]

\* C8 witness: a descriptor was built from a name whose frame number has
\* leading zeros.
C8_Witness ==
    \E i \in DOMAIN candidates :
        /\ candidates[i].image_number_zero_padding
              > Len(IntToStr(candidates[i].start_value))
        /\ candidates[i].name_prefix # << >>

(***************************************************************************)
(* SpecMatch: one directory holding one or two files, with or without      *)
(* embedded timecode, linked once with a range drawn from a small set.     *)
(***************************************************************************)

E == <<"e">>

Numbered(prefix, n, width, ext) ==
    prefix \o ZeroPad(IntToStr(n), width) \o <<".">> \o ext

\* f.<n>.e carries a frame number; g<n>.e has no frame number the pattern
\* of line 57 finds.
MatchNames ==
    { Numbered(<<"f", ".">>, n, 1, E) : n \in {2, 4, 100, 199} }
        \cup { Numbered(<<"g">>, n, 1, E) : n \in {1, 2} }

\* Bounds on the requested ranges.
MaxStart == 5
MaxDuration == 3

Starts == (0..MaxStart) \cup {150, 200}

Durations == (1..MaxDuration) \cup {11}

Rate == 24

\* The timecodes a file may carry: none, or the one of frame 3.
Timecodes == { None, Str(to_timecode(3, Rate)) }

InitMatch ==
    \E S \in { T \in SUBSET MatchNames : Cardinality(T) \in {1, 2} } :
    \E tcs \in [S -> Timecodes] :
        Start({ File(R, n) : n \in S },
              [ f \in { File(R, n) : n \in S } |-> Header(FALSE, tcs[f.n], None) ],
              FALSE)

NextMatch ==
    /\ calls = 0
    /\ \E start \in Starts : \E duration \in Durations :
          LinkMediaReference(Clip(<< >>, start, duration, Rate),
                             [root |-> R, ext |-> E])

SpecMatch == InitMatch /\ [][NextMatch]_vars

\* First and last file of a cached bucket b = <<dirname, identifier>>.
FirstOf(b) == File(b[1], file_cache[b[1]][b[2]].files[1])

LastOf(b) ==
    File(b[1], file_cache[b[1]][b[2]].files[Len(file_cache[b[1]][b[2]].files)])

HasFrame(f) == FrameSearch(f.n) # NoMatch

FrameOf(f) == StrToInt(Group(f.n, FrameSearch(f.n)))

HasTimecode(f) == Truthy(meta[f].tc)

\* The requested range of the last call, in frames.
QueryFirst == call.clip.start

QueryLast == call.clip.start + call.clip.duration - 1

\* C1: a bucket without timecode whose first and last frames are T0 <= T1 is
\* accepted exactly when the requested range intersects [T0, T1].
C1_MatchIffIntersects ==
    \A b \in DOMAIN evals :
        ( /\ ~HasTimecode(FirstOf(b)) /\ ~HasTimecode(LastOf(b))
          /\ HasFrame(FirstOf(b)) /\ HasFrame(LastOf(b))
          /\ FrameOf(FirstOf(b)) <= FrameOf(LastOf(b)) )
        => ( evals[b].ok <=>
                (FrameOf(FirstOf(b)) <= QueryLast /\ QueryFirst <= FrameOf(LastOf(b))) )

\* C9: a bucket whose first or last file has neither timecode nor a frame
\* number in its name is rejected.
C9_ParseFailureRejects ==
    \A b \in DOMAIN evals :
        ( \E f \in {FirstOf(b), LastOf(b)} : ~HasTimecode(f) /\ ~HasFrame(f) )
        => ~evals[b].ok

\* C10: every test evaluated on a bucket is taken from the unit system the
\* first file selects (timecode when it carries one, frame numbers when
\* not), and compares a value of that unit system.
C10_OneUnitSystem ==
    \A b \in DOMAIN evals : \A i \in DOMAIN evals[b].trace :
        IF HasTimecode(FirstOf(b))
        THEN evals[b].trace[i] = [testname |-> "timecode", value |-> "str"]
        ELSE /\ evals[b].trace[i].testname = "frames"
             /\ evals[b].trace[i].value \in {"num", "None"}

(***************************************************************************)
(* Spec: a few directory trees, linked and located up to MaxCalls times,   *)
(* with and without force, while files may appear on disk.                 *)
(***************************************************************************)

RS == <<"r", "/", "s">>

A_ == <<"a", ".">>

B_ == <<"b", ".">>

ShotA == <<"s", "h", "o", "t", "A">>

ShotATree == { File(R, Numbered(ShotA \o <<".">>, n, 4, Exr)) : n \in 1001..1010 }

ABTree ==
    { File(R, Numbered(A_, 1, 1, Exr)), File(R, Numbered(A_, 2, 1, Exr)),
      File(R, Numbered(B_, 1, 1, Exr)), File(R, Numbered(B_, 2, 1, Exr)),
      File(RS, Numbered(A_, 1, 1, Exr)) }

GroupTree ==
    { File(R, Numbered(A_, 1, 4, Exr)), File(R, Numbered(A_, 2, 4, Exr)),
      File(R, <<"b", ".", "p", "n", "g">>) }

EmptyTree == {}

Trees == { ShotATree, ABTree, GroupTree, EmptyTree }

\* The files that may appear later.
NewFiles == { File(R, Numbered(A_, 3, 1, Exr)), File(RS, Numbered(B_, 1, 1, Exr)) }

\* Headers written by a renderer that stamps every numbered frame with the
\* timecode of its frame number and a frame rate of 25.
Stamp(f) ==
    IF HasFrame(f) THEN Header(FALSE, Str(to_timecode(FrameOf(f), Rate)), Num(25))
    ELSE NoHeader

Stamped(files) == [f \in files |-> Stamp(f)]

ShotAArgs == [root |-> R, pattern |-> ShotA, ext |-> Exr]

LinkQueries ==
    { [clip |-> Clip(nm, 1, d, Rate), args |-> [root |-> rt, ext |-> Exr]] :
        nm \in {<< >>, <<"b">>}, d \in {2, 3}, rt \in {R, RS} }
    \cup
    { [clip |-> Clip(<< >>, 1003, 4, Rate), args |-> ShotAArgs],
      [clip |-> Clip(<< >>, 1001, 10, Rate), args |-> ShotAArgs] }

LocateQueries ==
    { [clip |-> Clip(<< >>, 1, 3, Rate), args |-> [root |-> rt, ext |-> Exr],
       force |-> fc] : rt \in {R, RS}, fc \in BOOLEAN }

Init ==
    \E tree \in Trees : \E headers \in {Plain(tree), Stamped(tree)} :
    \E use_first \in BOOLEAN :
        Start(tree, headers, use_first)

Next ==
    \/ \E q \in LinkQueries : LinkMediaReference(q.clip, q.args)
    \/ \E q \in LocateQueries : LocateFiles(q.clip, q.args, q.force)
    \/ \E f \in NewFiles : calls \in 1..(MaxCalls - 1) /\ CreateFile(f, NoHeader)

Spec == Init /\ [][Next]_vars

\* C2: on a root holding exactly shotA.1001.exr .. shotA.1010.exr without
\* timecode, a first request for pattern shotA, extension exr and the range
\* 1003..1006 yields exactly one descriptor, starting at 1001 with padding
\* 4, the clip's rate and a duration of 10.
C2_EndToEnd ==
    ( /\ calls = 1 /\ call.op = "link"
      /\ fs = ShotATree /\ meta = Plain(ShotATree)
      /\ call.args = ShotAArgs /\ call.clip = Clip(<< >>, 1003, 4, Rate) )
    => /\ ret.exc = ""
       /\ Len(candidates) = 1
       /\ candidates[1].start_value = 1001
       /\ candidates[1].image_number_zero_padding = 4
       /\ candidates[1].rate = Rate
       /\ candidates[1].available_range.duration.value = 10

\* The file lists of a cache.
FilesOf(cache) ==
    [ d \in DOMAIN cache |-> [ id \in DOMAIN cache[d] |-> cache[d][id].files ] ]

\* C3: after a forced call on an indexed root, the cached file lists under
\* that root are the ones a walk of the tree as it is now produces.
C3_ForceRebuilds ==
    (call.op = "locate" /\ call.force /\ call.indexed)
    => \A d \in DOMAIN file_cache :
          IsUnder(d, call.root)
          => /\ d \in DOMAIN dig_for_files(EmptyDict, fs, call.root)
             /\ FilesOf(file_cache)[d]
                    = FilesOf(dig_for_files(EmptyDict, fs, call.root))[d]

\* C4: a call without force on a root that is already in the cache walks
\* nothing and leaves every cached file list as it was.
C4_UnforcedIdempotent ==
    [][ (calls' = calls + 1 /\ ~call'.force /\ call'.root \in DOMAIN file_cache)
        => (walks' = walks /\ FilesOf(file_cache') = FilesOf(file_cache)) ]_vars

\* An unforced call on an indexed root whose entry is empty although the
\* tree holds files under it by now.
C4_Witness ==
    /\ call.op # "none" /\ ~call.force /\ call.indexed
    /\ file_cache[call.root] = EmptyDict
    /\ \E f \in fs : IsUnder(f.d, call.root)

\* The accepted buckets that pass the clip-name filter.
Matching ==
    { b \in DOMAIN evals :
        evals[b].ok /\ NameOk(call.clip, file_cache[b[1]][b[2]]) }

\* C5: a call that returns builds one descriptor for every accepted bucket
\* that passes the name filter.
C5_EveryMatchBuilt ==
    (call.op = "link" /\ ret.exc = "") => Len(candidates) = Cardinality(Matching)

\* C6: when no bucket is accepted the call returns None; a call that
\* returns gives None for no descriptor, the first descriptor when
\* USE_FIRST is set, and the list of all descriptors otherwise.
C6_SelectionPolicy ==
    call.op = "link"
    => /\ (\A b \in DOMAIN evals : ~evals[b].ok) => ret = Return(None)
       /\ ret.exc = ""
          => ret.value = IF candidates = << >> THEN None
                         ELSE IF USE_FIRST THEN [t |-> "seq", seq |-> candidates[1]]
                         ELSE [t |-> "list", list |-> candidates]

\* Two descriptors were built with USE_FIRST set, and only the first one
\* was returned.
C6_Witness ==
    /\ call.op = "link" /\ USE_FIRST /\ Len(candidates) >= 2
    /\ ret = Return([t |-> "seq", seq |-> candidates[1]])

(***************************************************************************)
(* SpecMeta: one directory holding a.1.exr, a.2.exr and a.3.exr, whose     *)
(* first and last file carry any of four headers; the first file's header  *)
(* may be rewritten between calls.  Queries come with and without 'ext'.   *)
(***************************************************************************)

MetaFirst == File(R, Numbered(A_, 1, 1, Exr))

MetaLast == File(R, Numbered(A_, 3, 1, Exr))

MetaTree == { MetaFirst, File(R, Numbered(A_, 2, 1, Exr)), MetaLast }

\* No metadata, timecode and frame rate, a frame rate only, or a file the
\* reader fails on.
Headers(f) ==
    { NoHeader, Stamp(f), Header(FALSE, None, Num(25)), Header(TRUE, None, None) }

MetaClip == Clip(<< >>, 1, 3, Rate)

MetaArgs == { [root |-> R, ext |-> Exr], [root |-> R] }

InitMeta ==
    \E h1 \in Headers(MetaFirst) : \E h3 \in Headers(MetaLast) :
        Start(MetaTree,
              [ f \in MetaTree |-> IF f = MetaFirst THEN h1
                                   ELSE IF f = MetaLast THEN h3 ELSE NoHeader ],
              FALSE)

NextMeta ==
    \/ \E args \in MetaArgs : LinkMediaReference(MetaClip, args)
    \/ \E args \in MetaArgs : LocateFiles(MetaClip, args, FALSE)
    \/ \E hdr \in Headers(MetaFirst) :
          calls \in 1..(MaxCalls - 1) /\ WriteHeader(MetaFirst, hdr)

SpecMeta == InitMeta /\ [][NextMeta]_vars

\* The record locate_files returned for the bucket a descriptor points to.
DataOf(seq) == results[DirOf(seq)]

\* The rate of a descriptor: the cached frame rate, else the clip's rate.
RateOf(data) == IF Truthy(Get(data.fps)) THEN Get(data.fps).n ELSE call.clip.rate

\* C11: every descriptor has the number of files as duration, the cached
\* frame rate or else the clip's rate as rate, and as start time the
\* timecode-in converted at that rate or, without timecode, the first frame
\* number at the clip's rate.
C11_DescriptorFields ==
    \A i \in DOMAIN candidates :
        /\ candidates[i].rate = RateOf(DataOf(candidates[i]))
        /\ candidates[i].available_range.duration
              = RationalTime(Len(DataOf(candidates[i]).files),
                             RateOf(DataOf(candidates[i])))
        /\ candidates[i].available_range.start_time
              = IF Truthy(DataOf(candidates[i]).tc_in[1])
                THEN RationalTime(
                        from_timecode(DataOf(candidates[i]).tc_in[1].s,
                                      RateOf(DataOf(candidates[i]))),
                        RateOf(DataOf(candidates[i])))
                ELSE RationalTime(DataOf(candidates[i]).first_frame[1].n,
                                  call.clip.rate)

\* The first and the last file of bucket b can be read, carry no timecode,
\* and their frame numbers lie within the requested range.
FramesWithin(b) ==
    /\ HasFrame(FirstOf(b)) /\ HasFrame(LastOf(b))
    /\ QueryFirst <= FrameOf(FirstOf(b))
    /\ FrameOf(LastOf(b)) <= QueryLast

NoTimecode(b) == ~HasTimecode(FirstOf(b)) /\ ~HasTimecode(LastOf(b))

Readable(b) == ~meta[FirstOf(b)].err /\ ~meta[LastOf(b)].err

\* C12: a query that sets neither 'pattern' nor 'ext' filters no path: every
\* bucket that satisfies the bound tests is accepted.
C12_UnsetMeansNoFilter ==
    (call.op # "none" /\ "pattern" \notin DOMAIN call.args
                      /\ "ext" \notin DOMAIN call.args)
    => \A b \in DOMAIN evals :
          (Readable(b) /\ NoTimecode(b) /\ FramesWithin(b)) => evals[b].ok

\* C13: a bucket with a file whose header cannot be read, no timecode on
\* the files that can, and frame numbers within the requested range is
\* accepted when its paths pass the 'ext' filter.
C13_ReadFailureIsNoMetadata ==
    (call.op # "none" /\ "ext" \in DOMAIN call.args)
    => \A b \in DOMAIN evals :
          ( /\ ~Readable(b) /\ NoTimecode(b) /\ FramesWithin(b)
            /\ ExtOf(FirstOf(b).n) = call.args.ext
            /\ ExtOf(LastOf(b).n) = call.args.ext )
          => evals[b].ok

MemoFields == {"tc_in", "fps", "first_frame"}

\* C15: a field memoized on a bucket keeps its value in every step.
C15_WriteOnce ==
    [][ \A d \in DOMAIN file_cache : \A id \in DOMAIN file_cache[d] :
        \A field \in MemoFields :
            file_cache[d][id][field] # Missing
            => /\ d \in DOMAIN file_cache'
               /\ id \in DOMAIN file_cache'[d]
               /\ file_cache'[d][id][field] = file_cache[d][id][field] ]_vars

\* A later call read the first file again, whose header by now holds another
\* timecode than the memoized one.
C15_Witness ==
    /\ calls >= 2
    /\ \E b \in DOMAIN evals :
          /\ FirstOf(b).n \in Range(evals[b].reads)
          /\ file_cache[b[1]][b[2]].tc_in # Missing
          /\ file_cache[b[1]][b[2]].tc_in[1] # meta[FirstOf(b)].tc

\* C16: a call reads the header of first and last files only, and does not
\* read the first file of a bucket whose tc_in and fps are memoized.
C16_ReadsMemoized ==
    [][ calls' = calls + 1
        => \A b \in DOMAIN evals' :
            /\ Range(evals'[b].reads) \subseteq
                  { file_cache'[b[1]][b[2]].files[1],
                    file_cache'[b[1]][b[2]].files[Len(file_cache'[b[1]][b[2]].files)] }
            /\ ( /\ b[1] \in DOMAIN file_cache
                 /\ b[2] \in DOMAIN file_cache[b[1]]
                 /\ file_cache[b[1]][b[2]].tc_in # Missing
                 /\ file_cache[b[1]][b[2]].fps # Missing )
               => file_cache[b[1]][b[2]].files[1] \notin Range(evals'[b].reads) ]_vars

\* C14: every cached file list is in ascending lexicographic order.
C14_FilesSorted ==
    \A d \in DOMAIN file_cache : \A id \in DOMAIN file_cache[d] :
        \A i, j \in DOMAIN file_cache[d][id].files :
            i < j => StrLeq(file_cache[d][id].files[i], file_cache[d][id].files[j])

\* C20: link_media_reference raises nothing.
C20_BuilderTotal == call.op = "link" => ret.exc = ""

(***************************************************************************)
(* SpecRoots: the sibling directories a and ab and the directory a/s, each *)
(* a root that is linked or located, with and without force.               *)
(***************************************************************************)

RA == <<"a">>

RAB == <<"a", "b">>

RAS == <<"a", "/", "s">>

Roots == { RA, RAB, RAS }

RootsFiles ==
    { File(RA, Numbered(A_, 1, 1, Exr)), File(RAS, Numbered(A_, 1, 1, Exr)),
      File(RAB, Numbered(B_, 1, 1, Exr)) }

RootsClip == Clip(<< >>, 1, 1, Rate)

InitRoots ==
    \E tree \in (SUBSET RootsFiles) \ {{}} :
    \E headers \in {Plain(tree), Stamped(tree)} :
        Start(tree, headers, FALSE)

NextRoots ==
    \/ \E rt \in Roots : LinkMediaReference(RootsClip, [root |-> rt, ext |-> Exr])
    \/ \E rt \in Roots : \E force \in BOOLEAN :
          LocateFiles(RootsClip, [root |-> rt, ext |-> Exr], force)
    \/ \E d \in Roots : MutateResult(d)

SpecRoots == InitRoots /\ [][NextRoots]_vars

\* C18: every directory of the result of a call is the root of the call or
\* lies below it.
C18_RootScoped ==
    call.op # "none" => \A d \in DOMAIN results : IsUnder(d, call.root)

\* The fields of a bucket record.
BucketOf(data) ==
    [files |-> data.files, tc_in |-> data.tc_in, fps |-> data.fps,
     first_frame |-> data.first_frame]

\* C19: a step in which the caller mutates a returned record leaves the
\* cache as it was, and every record a call returns holds the fields of an
\* accepted bucket of the cache.
C19_ResultsAreCopies ==
    [][ /\ (calls' = calls /\ results' # results) => file_cache' = file_cache
        /\ calls' = calls + 1
           => \A d \in DOMAIN results' :
                 \E b \in DOMAIN evals' :
                    /\ b[1] = d /\ evals'[b].ok
                    /\ BucketOf(results'[d]) = BucketOf(file_cache'[b[1]][b[2]]) ]_vars

\* A returned record was mutated, and returned again unmutated by the next
\* call.
C19_Witness ==
    /\ calls >= 2
    /\ \E d \in DOMAIN results :
          /\ results[d].tc_in = Set(Str(<<"x">>))
          /\ \E id \in DOMAIN file_cache[d] :
                file_cache[d][id].tc_in # Set(Str(<<"x">>))

(***************************************************************************)
(* SpecThreads: the threads of one process call locate_files on the same   *)
(* root without force and without a lock; a thread may be preempted after  *)
(* the test of line 195 and after dig_for_files.                           *)
(***************************************************************************)

ThreadArgs == [root |-> R, ext |-> Exr]

InitThreads ==
    \E tree \in Trees : \E headers \in {Plain(tree), Stamped(tree)} :
        Start(tree, headers, FALSE)

NextThreads ==
    \E t \in Threads :
        \/ Enter(t, RootOf(ThreadArgs))
        \/ Dig(t, RootOf(ThreadArgs))
        \/ Evaluate(t, MetaClip, ThreadArgs)

SpecThreads == InitThreads /\ [][NextThreads]_vars

\* A cached file list holds the same name more than once.
HasDuplicate ==
    \E d \in DOMAIN file_cache : \E id \in DOMAIN file_cache[d] :
        \E i, j \in DOMAIN file_cache[d][id].files :
            i < j /\ file_cache[d][id].files[i] = file_cache[d][id].files[j]

\* C17: a file list with a repeated name needs two threads that both walked
\* the tree, and a thread that entered after another one had returned never
\* walks: with the calls one after the other no name is repeated.
C17_DuplicatesNeedOverlap ==
    /\ HasDuplicate => \E t, u \in Threads : t # u /\ pc[t].dug /\ pc[u].dug
    /\ \A t \in Threads : pc[t].dug => ~pc[t].late

\* Two threads passed the test before either had registered the root, both
\* walked, and a name is cached twice.
C17_Witness ==
    /\ HasDuplicate
    /\ \A t \in Threads : pc[t].at = "done"

=============================================================================
